---- MODULE Spec2Model ----
(***************************************************************************)
(* Model of ikos::core::exception::ExceptionDomain< UnderlyingDomain >     *)
(* (core/include/ikos/core/domain/exception/exception.hpp).                *)
(*                                                                         *)
(* The class is a triple (normal, caught_exceptions, propagated_exceptions)*)
(* of values of an underlying abstract domain.  The underlying domain is a *)
(* template parameter; it is instantiated here with the four-element       *)
(* lattice Bottom <= Even, Odd <= Top (Even and Odd incomparable).         *)
(*                                                                         *)
(* One object `d` is modelled.  Every public operation of the class that   *)
(* the properties below talk about is one action.  Besides `d`, history    *)
(* variables remember the receiver before the last call, the call's name   *)
(* and argument, and the value a predicate returned.                       *)
(***************************************************************************)
EXTENDS Naturals, Sequences, FiniteSets

VARIABLES
  d,        \* the object: [normal, caught_exceptions, propagated_exceptions]
  pre,      \* value of the object before the last call
  op,       \* name of the last call ("init" after construction)
  arg,      \* the `other` argument of the last call (the receiver when none)
  res,      \* value returned by the last call when it is a predicate
  hist,     \* <<v>> when the call before the last one was
            \* merge_caught_in_propagated_exceptions on a value v with no
            \* propagated exceptions, else <<>>
  changes,  \* number of calls that changed the object in the current run of
            \* consecutive widen_with calls
  n0        \* <<n>> when the object was set to (n, bottom, bottom) and only
            \* transfer functions and predicates were called since, else <<>>

vars == <<d, pre, op, arg, res, hist, changes, n0>>

\* Longest run of consecutive object-changing widen_with calls explored.
MaxChain == 7

-----------------------------------------------------------------------------
(* The underlying domain: the four-element parity lattice.                 *)

V == {"Bottom", "Even", "Odd", "Top"}

V_top == "Top"

V_bottom == "Bottom"

V_is_bottom(a) == a = "Bottom"

V_is_top(a) == a = "Top"

V_leq(a, b) == a = "Bottom" \/ b = "Top" \/ a = b

V_equals(a, b) == a = b

\* least upper bound
V_join(a, b) ==
  IF V_leq(a, b) THEN b ELSE IF V_leq(b, a) THEN a ELSE "Top"

\* greatest lower bound
V_meet(a, b) ==
  IF V_leq(a, b) THEN a ELSE IF V_leq(b, a) THEN b ELSE "Bottom"

\* on a lattice of finite height the widening is the join
V_widen(a, b) == V_join(a, b)

-----------------------------------------------------------------------------
(* ExceptionDomain: constructors                                           *)

ExceptionDomain(n, c, p) ==
  [normal |-> n, caught_exceptions |-> c, propagated_exceptions |-> p]

\* every value the three-argument constructor can build
Values == {ExceptionDomain(n, c, p) : n \in V, c \in V, p \in V}

top == ExceptionDomain(V_top, V_top, V_top)

\* Faulty variant: the caught exceptions start at top.
top_no_exceptions_caught_top == ExceptionDomain(V_top, V_top, V_bottom)

top_no_exceptions == ExceptionDomain(V_top, V_bottom, V_bottom)

bottom == ExceptionDomain(V_bottom, V_bottom, V_bottom)

-----------------------------------------------------------------------------
(* ExceptionDomain: lattice operations.  `x` is the receiver object; a      *)
(* mutating method is the operator giving the receiver's new value.        *)

is_bottom(x) ==
  V_is_bottom(x.normal) /\ V_is_bottom(x.caught_exceptions) /\
  V_is_bottom(x.propagated_exceptions)

is_top(x) ==
  V_is_top(x.normal) /\ V_is_top(x.caught_exceptions) /\
  V_is_top(x.propagated_exceptions)

set_to_bottom(x) == ExceptionDomain(V_bottom, V_bottom, V_bottom)

set_to_top(x) == ExceptionDomain(V_top, V_top, V_top)

\* Faulty variant: the propagated exceptions are not compared.
leq_no_propagated(x, other) ==
  V_leq(x.normal, other.normal) /\
  V_leq(x.caught_exceptions, other.caught_exceptions)

\* Faulty variant: the last `&&` is written `||`.
leq_or(x, other) ==
  \/ V_leq(x.normal, other.normal) /\
     V_leq(x.caught_exceptions, other.caught_exceptions)
  \/ V_leq(x.propagated_exceptions, other.propagated_exceptions)

leq(x, other) ==
  V_leq(x.normal, other.normal) /\
  V_leq(x.caught_exceptions, other.caught_exceptions) /\
  V_leq(x.propagated_exceptions, other.propagated_exceptions)

equals(x, other) ==
  V_equals(x.normal, other.normal) /\
  V_equals(x.caught_exceptions, other.caught_exceptions) /\
  V_equals(x.propagated_exceptions, other.propagated_exceptions)

\* Faulty variant: the propagated exceptions are not joined.
join_with_no_propagated(x, other) ==
  ExceptionDomain(V_join(x.normal, other.normal),
                  V_join(x.caught_exceptions, other.caught_exceptions),
                  x.propagated_exceptions)

join_with(x, other) ==
  ExceptionDomain(V_join(x.normal, other.normal),
                  V_join(x.caught_exceptions, other.caught_exceptions),
                  V_join(x.propagated_exceptions, other.propagated_exceptions))

\* Faulty variant: the propagated exceptions are met instead of widened.
widen_with_meet_propagated(x, other) ==
  ExceptionDomain(V_widen(x.normal, other.normal),
                  V_widen(x.caught_exceptions, other.caught_exceptions),
                  V_meet(x.propagated_exceptions, other.propagated_exceptions))

widen_with(x, other) ==
  ExceptionDomain(V_widen(x.normal, other.normal),
                  V_widen(x.caught_exceptions, other.caught_exceptions),
                  V_widen(x.propagated_exceptions, other.propagated_exceptions))

meet_with(x, other) ==
  ExceptionDomain(V_meet(x.normal, other.normal),
                  V_meet(x.caught_exceptions, other.caught_exceptions),
                  V_meet(x.propagated_exceptions, other.propagated_exceptions))

-----------------------------------------------------------------------------
(* ExceptionDomain: exception transfer functions.  The statements of each  *)
(* method are applied in the order of the source.                          *)

\* Faulty variant: the propagated exceptions are not reset.
merge_propagated_in_caught_exceptions_keep(x) ==
  [x EXCEPT !.caught_exceptions =
               V_join(x.caught_exceptions, x.propagated_exceptions)]

merge_propagated_in_caught_exceptions(x) ==
  LET s1 == [x EXCEPT !.caught_exceptions =
                         V_join(x.caught_exceptions, x.propagated_exceptions)]
  IN  [s1 EXCEPT !.propagated_exceptions = V_bottom]

\* Faulty variant: the caught exceptions are not reset.
merge_caught_in_propagated_exceptions_keep(x) ==
  [x EXCEPT !.propagated_exceptions =
               V_join(x.propagated_exceptions, x.caught_exceptions)]

merge_caught_in_propagated_exceptions(x) ==
  LET s1 == [x EXCEPT !.propagated_exceptions =
                         V_join(x.propagated_exceptions, x.caught_exceptions)]
  IN  [s1 EXCEPT !.caught_exceptions = V_bottom]

enter_normal(x) == [x EXCEPT !.caught_exceptions = V_bottom]

\* Faulty variant: the propagated exceptions are not reset.
enter_catch_keep_propagated(x) ==
  LET s1 == [x EXCEPT !.normal = x.caught_exceptions,
                      !.caught_exceptions = x.normal]
  IN  [s1 EXCEPT !.caught_exceptions = V_bottom]

enter_catch(x) ==
  LET s1 == [x EXCEPT !.normal = x.caught_exceptions,
                      !.caught_exceptions = x.normal]
      s2 == [s1 EXCEPT !.caught_exceptions = V_bottom]
  IN  [s2 EXCEPT !.propagated_exceptions = V_bottom]

ignore_exceptions(x) ==
  LET s1 == [x EXCEPT !.caught_exceptions = V_bottom]
  IN  [s1 EXCEPT !.propagated_exceptions = V_bottom]

\* Faulty variant: the normal state overwrites the caught exceptions.
throw_exception_assign(x) ==
  LET s1 == [x EXCEPT !.caught_exceptions = x.normal]
  IN  [s1 EXCEPT !.normal = V_bottom]

throw_exception(x) ==
  LET s1 == [x EXCEPT !.caught_exceptions =
                         V_join(x.caught_exceptions, x.normal)]
  IN  [s1 EXCEPT !.normal = V_bottom]

\* Faulty variant: the normal state is dropped without being joined.
resume_exception_no_join(x) == [x EXCEPT !.normal = V_bottom]

resume_exception(x) ==
  LET s1 == [x EXCEPT !.caught_exceptions =
                         V_join(x.caught_exceptions, x.normal)]
  IN  [s1 EXCEPT !.normal = V_bottom]

-----------------------------------------------------------------------------
(* History bookkeeping shared by the actions                               *)

TransferOps ==
  {"merge_propagated_in_caught_exceptions",
   "merge_caught_in_propagated_exceptions",
   "enter_normal", "enter_catch", "ignore_exceptions",
   "throw_exception", "resume_exception"}

ConstOps == {"is_bottom", "is_top", "leq"}

NoExceptions(x) ==
  V_is_bottom(x.caught_exceptions) /\ V_is_bottom(x.propagated_exceptions)

ScopeOf(x) == IF NoExceptions(x) THEN <<x.normal>> ELSE <<>>

\* The history of a call `name(other)` that returned `result`; the action
\* that uses it has already fixed the new value d' of the object.
Record(name, other, result) ==
  /\ pre' = d
  /\ op' = name
  /\ arg' = other
  /\ res' = result
  /\ hist' = IF /\ op = "merge_caught_in_propagated_exceptions"
                /\ V_is_bottom(pre.propagated_exceptions)
               THEN <<pre>> ELSE <<>>
  /\ changes' = IF name = "widen_with"
                  THEN (IF d' = d THEN changes ELSE changes + 1)
                  ELSE 0
  /\ n0' = IF name \in TransferOps \cup ConstOps THEN n0 ELSE ScopeOf(d')

-----------------------------------------------------------------------------
(* Actions: one per call on the object                                     *)

Init ==
  /\ d \in Values
  /\ pre = d
  /\ op = "init"
  /\ arg = d
  /\ res = FALSE
  /\ hist = <<>>
  /\ changes = 0
  /\ n0 = ScopeOf(d)

\* d = ExceptionDomain::top()
Call_top ==
  /\ d' = top
  /\ Record("top", d, FALSE)

\* d = ExceptionDomain::top_no_exceptions()
Call_top_no_exceptions ==
  /\ d' = top_no_exceptions
  /\ Record("top_no_exceptions", d, FALSE)

\* d = ExceptionDomain::bottom()
Call_bottom ==
  /\ d' = bottom
  /\ Record("bottom", d, FALSE)

Call_set_to_bottom ==
  /\ d' = set_to_bottom(d)
  /\ Record("set_to_bottom", d, FALSE)

Call_set_to_top ==
  /\ d' = set_to_top(d)
  /\ Record("set_to_top", d, FALSE)

Call_is_bottom ==
  /\ d' = d
  /\ Record("is_bottom", d, is_bottom(d))

Call_is_top ==
  /\ d' = d
  /\ Record("is_top", d, is_top(d))

Call_leq ==
  \E other \in Values :
    /\ d' = d
    /\ Record("leq", other, leq(d, other))

Call_join_with ==
  \E other \in Values :
    /\ d' = join_with(d, other)
    /\ Record("join_with", other, FALSE)

Call_widen_with ==
  \E other \in Values :
    /\ changes < MaxChain
    /\ d' = widen_with(d, other)
    /\ Record("widen_with", other, FALSE)

Call_meet_with ==
  \E other \in Values :
    /\ d' = meet_with(d, other)
    /\ Record("meet_with", other, FALSE)

Call_merge_propagated_in_caught_exceptions ==
  /\ d' = merge_propagated_in_caught_exceptions(d)
  /\ Record("merge_propagated_in_caught_exceptions", d, FALSE)

Call_merge_caught_in_propagated_exceptions ==
  /\ d' = merge_caught_in_propagated_exceptions(d)
  /\ Record("merge_caught_in_propagated_exceptions", d, FALSE)

Call_enter_normal ==
  /\ d' = enter_normal(d)
  /\ Record("enter_normal", d, FALSE)

Call_enter_catch ==
  /\ d' = enter_catch(d)
  /\ Record("enter_catch", d, FALSE)

Call_ignore_exceptions ==
  /\ d' = ignore_exceptions(d)
  /\ Record("ignore_exceptions", d, FALSE)

Call_throw_exception ==
  /\ d' = throw_exception(d)
  /\ Record("throw_exception", d, FALSE)

Call_resume_exception ==
  /\ d' = resume_exception(d)
  /\ Record("resume_exception", d, FALSE)

Next ==
  \/ Call_top
  \/ Call_top_no_exceptions
  \/ Call_bottom
  \/ Call_set_to_bottom
  \/ Call_set_to_top
  \/ Call_is_bottom
  \/ Call_is_top
  \/ Call_leq
  \/ Call_join_with
  \/ Call_widen_with
  \/ Call_meet_with
  \/ Call_merge_propagated_in_caught_exceptions
  \/ Call_merge_caught_in_propagated_exceptions
  \/ Call_enter_normal
  \/ Call_enter_catch
  \/ Call_ignore_exceptions
  \/ Call_throw_exception
  \/ Call_resume_exception

Spec == Init /\ [][Next]_vars

TypeOK ==
  /\ d \in Values
  /\ pre \in Values
  /\ arg \in Values
  /\ res \in BOOLEAN
  /\ changes \in 0..MaxChain
  /\ Len(hist) <= 1
  /\ Len(n0) <= 1

-----------------------------------------------------------------------------
(* Helpers of the properties                                               *)

RECURSIVE V_height(_)
\* length of the longest strictly ascending chain of V that ends in a
V_height(a) ==
  LET below == {b \in V : V_leq(b, a) /\ ~V_equals(b, a)}
      hs == {V_height(b) : b \in below}
  IN  IF below = {} THEN 0
      ELSE 1 + (CHOOSE h \in hs : \A k \in hs : k <= h)

\* length of the longest strictly ascending chain of triples that ends in x
Height(x) ==
  V_height(x.normal) + V_height(x.caught_exceptions) +
  V_height(x.propagated_exceptions)

\* the triples above x
UpSet(x) == {y \in Values : leq(x, y)}

\* the components of x that are not bottom
NonBottom(x) ==
  {f \in {"normal", "caught_exceptions", "propagated_exceptions"} :
     ~V_is_bottom(x[f])}

-----------------------------------------------------------------------------
(* Properties                                                              *)

\* C1: after throw_exception() on (n, c, p) the normal state is bottom, the
\* caught exceptions are c join n and the propagated exceptions are still p;
\* from normal = Even, caught = Bottom the normal state is bottom and the
\* caught exceptions are Even.
C1_ThrowException ==
  op = "throw_exception" =>
    /\ V_is_bottom(d.normal)
    /\ d.caught_exceptions = V_join(pre.caught_exceptions, pre.normal)
    /\ d.propagated_exceptions = pre.propagated_exceptions
    /\ (pre.normal = "Even" /\ pre.caught_exceptions = "Bottom"
          => V_is_bottom(d.normal) /\ V_equals(d.caught_exceptions, "Even"))

C1_Witness ==
  /\ op = "throw_exception"
  /\ pre = ExceptionDomain("Even", "Bottom", "Odd")
  /\ d = ExceptionDomain("Bottom", "Even", "Odd")

\* C2: after enter_catch() on (n, c, p) the object is (c, Bottom, Bottom),
\* whatever n and p were: the result is the same for every other normal
\* state and every other propagated state.
C2_EnterCatch ==
  op = "enter_catch" =>
    /\ V_equals(d.normal, pre.caught_exceptions)
    /\ V_is_bottom(d.caught_exceptions)
    /\ V_is_bottom(d.propagated_exceptions)
    /\ \A n \in V, p \in V :
         d = enter_catch(ExceptionDomain(n, pre.caught_exceptions, p))

C2_Witness ==
  /\ op = "enter_catch"
  /\ pre = ExceptionDomain("Odd", "Even", "Top")
  /\ d = ExceptionDomain("Even", "Bottom", "Bottom")

\* C3: from a state with no propagated exceptions,
\* merge_caught_in_propagated_exceptions() directly followed by
\* merge_propagated_in_caught_exceptions() gives back the original state;
\* in between the caught exceptions are bottom and the propagated
\* exceptions are the original caught exceptions.
C3_ScopeRoundTrip ==
  (op = "merge_propagated_in_caught_exceptions" /\ hist # <<>>) =>
    LET orig == hist[1] IN
    /\ V_is_bottom(orig.propagated_exceptions)
    /\ V_is_bottom(pre.caught_exceptions)
    /\ V_equals(pre.propagated_exceptions, orig.caught_exceptions)
    /\ equals(d, orig)
    /\ V_equals(d.caught_exceptions, orig.caught_exceptions)
    /\ V_is_bottom(d.propagated_exceptions)
    /\ V_equals(d.normal, orig.normal)

C3_Witness ==
  /\ op = "merge_propagated_in_caught_exceptions"
  /\ hist = <<ExceptionDomain("Odd", "Even", "Bottom")>>
  /\ pre = ExceptionDomain("Odd", "Bottom", "Even")
  /\ d = ExceptionDomain("Odd", "Even", "Bottom")

\* C4: resume_exception() and throw_exception() have the same effect: the
\* result of either call is the result the other one gives on the same
\* object, in every state any sequence of calls can reach.
C4_ResumeIsThrow ==
  /\ op = "resume_exception" => d = throw_exception(pre)
  /\ op = "throw_exception" => d = resume_exception(pre)
  /\ throw_exception(d) = resume_exception(d)

C4_Witness ==
  /\ op = "resume_exception"
  /\ pre = ExceptionDomain("Odd", "Even", "Bottom")
  /\ d = ExceptionDomain("Bottom", "Top", "Bottom")

\* C5: top_no_exceptions() is (Top, Bottom, Bottom); it is neither is_top()
\* nor is_bottom(), and it is strictly below top().
C5_TopNoExceptions ==
  op = "top_no_exceptions" =>
    /\ V_is_top(d.normal)
    /\ V_is_bottom(d.caught_exceptions)
    /\ V_is_bottom(d.propagated_exceptions)
    /\ ~is_top(d)
    /\ ~is_bottom(d)
    /\ leq(d, top)
    /\ ~leq(top, d)
    /\ ~equals(d, top)
    /\ ~equals(top, d)

C5_Witness ==
  /\ op = "top_no_exceptions"
  /\ is_top(pre)
  /\ d = ExceptionDomain("Top", "Bottom", "Bottom")

\* C6: leq is reflexive, antisymmetric with respect to equals, and
\* transitive (x is the object, y the argument of the leq call, z any
\* triple).
C6_OrderLaws ==
  op = "leq" =>
    /\ res = leq(d, arg)
    /\ (arg = d => res)
    /\ (res /\ leq(arg, d) => equals(d, arg) /\ equals(arg, d))
    /\ (res => \A z \in Values : leq(arg, z) => leq(d, z))

C6_Witness ==
  /\ op = "leq"
  /\ res
  /\ d = ExceptionDomain("Bottom", "Even", "Odd")
  /\ arg = ExceptionDomain("Even", "Even", "Top")

\* C7: bottom() joined with x is x, top() met with x is x, bottom() is
\* is_bottom() and top() is is_top().
C7_BottomTopIdentities ==
  /\ (op = "join_with" /\ equals(pre, bottom)) => equals(d, arg)
  /\ (op = "meet_with" /\ equals(pre, top)) => equals(d, arg)
  /\ op = "bottom" => is_bottom(d)
  /\ op = "top" => is_top(d)
  /\ (op = "is_bottom" /\ equals(d, bottom)) => res
  /\ (op = "is_top" /\ equals(d, top)) => res

C7_Witness ==
  /\ op = "join_with"
  /\ pre = bottom
  /\ arg = ExceptionDomain("Even", "Odd", "Top")
  /\ d = arg

\* C8: join is monotone: with a the object and c the argument of a
\* join_with call, for every b above a and every e above c the result is
\* below b joined with e.
C8_JoinMonotone ==
  op = "join_with" =>
    \A b \in UpSet(pre), e \in UpSet(arg) : leq(d, join_with(b, e))

C8_Witness ==
  /\ op = "join_with"
  /\ pre = ExceptionDomain("Even", "Bottom", "Bottom")
  /\ arg = ExceptionDomain("Odd", "Bottom", "Even")
  /\ d = ExceptionDomain("Top", "Bottom", "Even")
  /\ Cardinality(UpSet(pre)) > 1
  /\ Cardinality(UpSet(arg)) > 1

\* C9: a run of widen_with calls is ascending, and the number of its calls
\* that change the object is at most the height the object has reached,
\* hence at most the height of top(); after that many changes the object
\* is a fixpoint of widen_with whatever the argument.
C9_WidenConverges ==
  /\ op = "widen_with" => leq(pre, d)
  /\ changes <= Height(d)
  /\ Height(d) <= Height(top)
  /\ changes < MaxChain
  /\ changes = Height(top) => \A other \in Values : widen_with(d, other) = d

C9_Witness ==
  /\ op = "widen_with"
  /\ changes = Height(top)
  /\ is_top(d)
  /\ pre # d

\* C10: from (n, Bottom, Bottom), after any sequence of transfer functions,
\* at most one component is not bottom and that component is n; and a
\* transfer function called on the bottom object leaves it bottom.
C10_OneComponent ==
  /\ n0 # <<>> =>
       /\ Cardinality(NonBottom(d)) <= 1
       /\ \A f \in NonBottom(d) : d[f] = n0[1]
  /\ (op \in TransferOps /\ is_bottom(pre)) => is_bottom(d)

C10_Witness ==
  /\ op = "merge_caught_in_propagated_exceptions"
  /\ n0 = <<"Even">>
  /\ d = ExceptionDomain("Bottom", "Bottom", "Even")

====
